---- MODULE Spec2Model ----
(***************************************************************************)
(* A model of yaycl's Config store (src/yaycl/__init__.py): the cache of   *)
(* named Documents, the populate pipeline (base file, local override file, *)
(* runtime overrides, inherit resolution) and the ConfigTree of runtime    *)
(* overrides that clears the store when it is mutated.                     *)
(*                                                                         *)
(* Values.  A YAML string is the sequence of its '/'-separated parts, so   *)
(* that 'does/not/exist' is <<"does","not","exist">> and str.split('/') is *)
(* the identity on the representation.  A mapping is the sequence of its   *)
(* <<key, value>> items in insertion order, tagged with its Python class:  *)
(* "map" an lya AttrDict, "dict" a plain dict, "tree" a ConfigTree node.   *)
(***************************************************************************)
EXTENDS Integers, Sequences, FiniteSets, TLC

Str(parts) == [tag |-> "str", val |-> parts]
S(word) == Str(<<word>>)
Map(items) == [tag |-> "map", val |-> items]
Dict(items) == [tag |-> "dict", val |-> items]
Tree(items) == [tag |-> "tree", val |-> items]
EmptyMap == Map(<< >>)
EmptyTree == Tree(<< >>)

\* The outcome of an expression whose evaluation raised an exception.
Raised == [tag |-> "raised", val |-> << >>]

IsRaised(v) == v.tag = "raised"
IsMapping(v) == v.tag \in {"map", "dict", "tree"}
IsAttrDict(v) == v.tag = "map"

\* ---- ordered-dict primitives on item sequences ----
Keys(items) == {items[i][1] : i \in 1..Len(items)}
Has(items, k) == \E i \in 1..Len(items) : items[i][1] = k
IndexOf(items, k) == CHOOSE i \in 1..Len(items) : items[i][1] = k
Lookup(items, k) == items[IndexOf(items, k)][2]
\* d[k] = v: an existing key keeps its position, a new key goes last.
Put(items, k, v) ==
    IF Has(items, k)
    THEN [i \in 1..Len(items) |-> IF items[i][1] = k THEN <<k, v>> ELSE items[i]]
    ELSE Append(items, <<k, v>>)
\* del d[k]
Remove(items, k) ==
    LET i == IndexOf(items, k)
    IN IF Has(items, k)
       THEN SubSeq(items, 1, i - 1) \o SubSeq(items, i + 1, Len(items))
       ELSE items

\* ---- lya.AttrDict ----
RECURSIVE ToAttr(_)
\* AttrDict.__setitem__ stores AttrDict(v) for a Mapping v: a deep conversion
\* (OrderedDict.__init__ -> update -> __setitem__), other values as they are.
ToAttr(v) ==
    IF IsMapping(v)
    THEN Map([i \in 1..Len(v.val) |-> <<v.val[i][1], ToAttr(v.val[i][2])>>])
    ELSE v

AttrSetItem(m, k, v) == Map(Put(m.val, k, ToAttr(v)))

RECURSIVE AttrUpdateItems(_, _)
AttrUpdateItems(m, items) ==
    IF items = << >> THEN m
    ELSE AttrUpdateItems(AttrSetItem(m, Head(items)[1], Head(items)[2]), Tail(items))
\* AttrDict.update is MutableMapping.update: one __setitem__ per top-level
\* key of other, so a nested mapping of other replaces the one in m.
ShallowUpdate(m, other) == AttrUpdateItems(m, other.val)

RECURSIVE FlattenItems(_, _)
\* AttrDict.flatten_dict: the <<path, leaf>> pairs in depth-first item order;
\* a mapping with no leaves below it contributes nothing.
FlattenItem(k, v) == IF IsMapping(v) THEN FlattenItems(v.val, k) ELSE << <<k, v>> >>
FlattenItems(items, path) ==
    IF items = << >> THEN << >>
    ELSE FlattenItem(Append(path, Head(items)[1]), Head(items)[2])
         \o FlattenItems(Tail(items), path)
Flatten(m, path) == FlattenItems(m.val, path)

RECURSIVE SetPath(_, _, _)
\* One step of AttrDict.update_flat: walk ks[:-1] from m creating empty
\* AttrDicts for missing keys, then set the last key.  Walking into a string
\* raises AttributeError ('str' object has no attribute 'get').
SetChild(m, k, sub) == IF IsRaised(sub) THEN Raised ELSE Map(Put(m.val, k, sub))
SetPath(m, ks, v) ==
    IF ~IsMapping(m) THEN Raised
    ELSE IF Len(ks) = 1 THEN Map(Put(m.val, ks[1], v))
    ELSE SetChild(m, ks[1],
                  SetPath(IF Has(m.val, ks[1]) THEN Lookup(m.val, ks[1]) ELSE EmptyMap,
                          Tail(ks), v))

RECURSIVE UpdateFlat(_, _)
\* AttrDict.update_flat: one step per <<path, leaf>> pair, in order (the
\* first half of the pairs, then the second half); a step that raises ends it.
UpdateFlat(m, flat) ==
    IF IsRaised(m) THEN Raised
    ELSE IF flat = << >> THEN m
    ELSE IF Len(flat) = 1 THEN SetPath(m, flat[1][1], flat[1][2])
    ELSE UpdateFlat(UpdateFlat(m, SubSeq(flat, 1, Len(flat) \div 2)),
                    SubSeq(flat, Len(flat) \div 2 + 1, Len(flat)))

\* AttrDict.update_dict: the deep merge of data onto m.
UpdateDict(m, data) == UpdateFlat(m, Flatten(data, << >>))
\* AttrDict.clone
Clone(m) == UpdateDict(EmptyMap, m)
\* A variant of Rebase: base is overlaid in place, without the clone that
\* rebuilds it from its leaves.
RebaseUnflattened(self, base) == UpdateDict(base, self)
\* AttrDict.rebase: self becomes base overlaid with self.
Rebased(merged) == IF IsRaised(merged) THEN Raised ELSE UpdateDict(EmptyMap, merged)
Rebase(self, base) == Rebased(UpdateDict(Clone(base), self))

\* ---- Config._inherit / Config._needs_inherit ----
\* The longest number of scans of the document _needs_inherit is followed for.
MaxPasses == 2

Last(s) == s[Len(s)]
Front(s) == SubSeq(s, 1, Len(s) - 1)

RECURSIVE Nav(_, _)
\* root = self[conf_key]; for k in keys: root = root[k].  A missing key
\* (KeyError) or an index into a string (TypeError) raises.
Nav(v, path) ==
    IF path = << >> THEN v
    ELSE IF ~IsMapping(v) \/ ~Has(v.val, Head(path)) THEN Raised
    ELSE Nav(Lookup(v.val, Head(path)), Tail(path))

RECURSIVE SetAt(_, _, _)
\* The document with the value at an existing path replaced in place.
SetAt(v, path, new) ==
    IF path = << >> THEN new
    ELSE [v EXCEPT !.val = Put(v.val, Head(path),
                                 SetAt(Lookup(v.val, Head(path)), Tail(path), new))]

RECURSIVE WalkBase(_, _, _)
\* for path_element in ...split('/'): base = base[path_element], under
\* try/except KeyError.  The result names the place reached: st is "found"
\* when every element was followed, "keyerror" when an element was missing
\* from a mapping (base stays where it was), "raise" when the walk indexed a
\* string, which raises TypeError and is not caught.
WalkBase(doc, at, parts) ==
    IF parts = << >> THEN [st |-> "found", at |-> at]
    ELSE IF ~IsMapping(Nav(doc, at)) THEN [st |-> "raise", at |-> at]
    ELSE IF ~Has(Nav(doc, at).val, Head(parts)) THEN [st |-> "keyerror", at |-> at]
    ELSE WalkBase(doc, Append(at, Head(parts)), Tail(parts))

\* The body of the for loop of _inherit for one yielded key tuple, on the
\* live document: [doc, warned, st] with st "ok" or "raise".  It is written
\* as a chain of operators, each taking the values the code has computed so
\* far.
InheritResult(doc, warned, st) == [doc |-> doc, warned |-> warned, st |-> st]

\* root[root_key].rebase(base) has returned or raised
InheritRebased(doc1, keys, warned, rebased) ==
    IF IsRaised(rebased) THEN InheritResult(doc1, warned, "raise")
    ELSE InheritResult(SetAt(doc1, keys, rebased), warned, "ok")

\* del(root[root_key]['inherit']) has run: doc1 is the document without the
\* marker, and base, the mapping found at path at, is read from it.
InheritRebase(doc1, keys, at, warned) ==
    InheritRebased(doc1, keys, warned, Rebase(Nav(doc1, keys), Nav(doc1, at)))

\* A variant of InheritBase: a base that is no mapping is not assigned; the
\* node only loses its marker.
InheritBaseKeepsNode(doc, keys, node, at, warned, base) ==
    IF IsAttrDict(base)
    THEN InheritRebase(SetAt(doc, keys, Map(Remove(node.val, "inherit"))), keys, at, warned)
    ELSE InheritResult(SetAt(doc, keys, Map(Remove(node.val, "inherit"))), warned, "ok")

\* if isinstance(base, AttrDict): ... else: root[root_key] = base
InheritBase(doc, keys, node, at, warned, base) ==
    IF IsAttrDict(base)
    THEN InheritRebase(SetAt(doc, keys, Map(Remove(node.val, "inherit"))), keys, at, warned)
    ELSE InheritResult(SetAt(doc, keys, base), warned, "ok")

\* the walk along the inherit path has ended as w says
InheritWalked(doc, keys, node, w) ==
    IF w.st = "raise" THEN InheritResult(doc, 0, "raise")
    ELSE InheritBase(doc, keys, node, w.at, IF w.st = "keyerror" THEN 1 ELSE 0,
                     Nav(doc, w.at))

\* node is root[root_key]; node['inherit'].split('/') raises when node is a
\* string, has no 'inherit' key, or has a mapping there.
InheritNode(doc, keys, node) ==
    IF ~IsMapping(node) THEN InheritResult(doc, 0, "raise")
    ELSE IF ~Has(node.val, "inherit") THEN InheritResult(doc, 0, "raise")
    ELSE IF Lookup(node.val, "inherit").tag # "str" THEN InheritResult(doc, 0, "raise")
    ELSE InheritWalked(doc, keys, node,
                       WalkBase(doc, << >>, Lookup(node.val, "inherit").val))

\* root is the mapping the keys before the last lead to
InheritRoot(doc, keys, root) ==
    IF IsRaised(root) \/ ~IsMapping(root) THEN InheritResult(doc, 0, "raise")
    ELSE IF ~Has(root.val, Last(keys)) THEN InheritResult(doc, 0, "raise")
    ELSE InheritNode(doc, keys, Lookup(root.val, Last(keys)))

\* keys, root_key = keys[:-1], keys[-1] raises IndexError for an empty tuple
InheritOne(doc, keys) ==
    IF keys = << >> THEN InheritResult(doc, 0, "raise")
    ELSE InheritRoot(doc, keys, Nav(doc, Front(keys)))

\* One scan of _needs_inherit: the key tuples it yields, k[:-1] for every
\* flattened key ending in 'inherit', taken from the document as it is when
\* the scan starts.
IsMarker(entry) == Last(entry[1]) = "inherit"
MarkerKeys(found) == [i \in 1..Len(found) |-> Front(found[i][1])]
Markers(doc) == MarkerKeys(SelectSeq(Flatten(doc, << >>), IsMarker))

RECURSIVE InheritEach(_, _, _)
\* The for loop of _inherit over the key tuples of one scan, in order (the
\* first half of them, then the rest); an exception ends the loop.
InheritWarned(r, warned) == [r EXCEPT !.warned = warned + r.warned]
InheritNext(r, todo) ==
    IF r.st = "raise" THEN r ELSE InheritEach(r.doc, todo, r.warned)
InheritEach(doc, todo, warned) ==
    IF todo = << >> THEN InheritResult(doc, warned, "ok")
    ELSE IF Len(todo) = 1 THEN InheritWarned(InheritOne(doc, todo[1]), warned)
    ELSE InheritNext(InheritEach(doc, SubSeq(todo, 1, Len(todo) \div 2), warned),
                     SubSeq(todo, Len(todo) \div 2 + 1, Len(todo)))

RECURSIVE InheritPasses(_, _, _)
\* st is "ok" when a scan found no marker, "raise" when an exception left
\* _inherit, "diverge" when markers remain after MaxPasses scans.
InheritScanned(r, fuel) ==
    IF r.st = "raise" THEN r ELSE InheritPasses(r.doc, r.warned, fuel - 1)
InheritScan(doc, todo, warned, fuel) ==
    IF todo = << >> THEN InheritResult(doc, warned, "ok")
    ELSE IF fuel = 0 THEN InheritResult(doc, warned, "diverge")
    ELSE InheritScanned(InheritEach(doc, todo, warned), fuel)
InheritPasses(doc, warned, fuel) == InheritScan(doc, Markers(doc), warned, fuel)

Inherit(doc) == InheritPasses(doc, 0, MaxPasses)

\* ---- the files of config_dir ----
NoFile == [tag |-> "nofile", val |-> << >>]
Invalid == [tag |-> "invalid", val |-> << >>]

\* X.yaml and X.local.yaml: the layering example, and a node that inherits.
XBase == Map(<< <<"a", S("1")>>,
                <<"b", Map(<< <<"x", S("1")>>, <<"y", S("2")>> >>)>>,
                <<"c", Map(<< <<"inherit", S("b")>> >>)>> >>)
XLocal == Map(<< <<"b", Map(<< <<"x", S("9")>> >>)>> >>)

\* Other contents of X.yaml: documents with inherit markers.
KV(k, v) == <<k, v>>
Ref(path) == Map(<< KV("inherit", path) >>)
RootKs == Map(<< KV("k1", S("v1")), KV("k2", S("v2")) >>)
\* a node that inherits a mapping
DocLeaf == Map(<< KV("root", RootKs), KV("leaf", Ref(S("root"))) >>)
\* ... and has keys of its own, one of them also a key of the base
DocLeafOwn ==
    Map(<< KV("root", RootKs),
           KV("leaf", Map(<< KV("inherit", S("root")), KV("k1", S("own")),
                             KV("z", S("own")) >>)) >>)
\* ... and has a mapping under a key of the base, and an empty mapping
DocLeafDeep ==
    Map(<< KV("root", Map(<< KV("k1", S("v1")), KV("sub", Map(<< KV("p", S("1")) >>)) >>)),
           KV("leaf", Map(<< KV("inherit", S("root")),
                             KV("sub", Map(<< KV("q", S("2")) >>)),
                             KV("opts", EmptyMap) >>)) >>)
\* a node that inherits, with a child that inherits the node
DocNested ==
    Map(<< KV("root", RootKs),
           KV("mid", Map(<< KV("inherit", S("root")), KV("extra", Ref(S("mid"))) >>)) >>)
\* a node that inherits a string
DocScalar ==
    Map(<< KV("leaf_value", S("hi")),
           KV("ref", Map(<< KV("inherit", S("leaf_value")), KV("sib", S("s")) >>)) >>)
\* a path whose first element is missing, beside a node that resolves
DocBroken ==
    Map(<< KV("k", S("v")),
           KV("broken", Map(<< KV("inherit", Str(<<"does", "not", "exist">>)),
                               KV("own", S("o")) >>)),
           KV("good", Ref(S("k"))) >>)
\* a path whose second element is missing
DocBrokenLater ==
    Map(<< KV("b", Map(<< KV("x", S("1")) >>)),
           KV("broken", Map(<< KV("inherit", Str(<<"b", "nope">>)), KV("own", S("o")) >>)) >>)
\* two paths that are missing
DocTwoBroken ==
    Map(<< KV("root", Map(<< KV("k1", S("v1")) >>)),
           KV("a", Ref(S("nope"))), KV("b", Ref(S("nope2"))) >>)
\* a path that goes on through a string
DocThroughScalar == Map(<< KV("a", S("1")), KV("c", Ref(Str(<<"a", "x">>))) >>)
\* two nodes that inherit each other, and a node that inherits itself
DocCycle ==
    Map(<< KV("a", Map(<< KV("inherit", S("b")), KV("x", S("1")) >>)),
           KV("b", Map(<< KV("inherit", S("a")), KV("y", S("2")) >>)),
           KV("me", Map(<< KV("inherit", S("me")), KV("w", S("3")) >>)) >>)
\* an 'inherit' key that holds a mapping
DocMappingMarker == Map(<< KV("a", Ref(Map(<< KV("x", S("1")) >>))), KV("e", Ref(EmptyMap)) >>)
\* a base that inherits, and a node that inherits a subtree holding a marker
DocChain ==
    Map(<< KV("t", Ref(S("r"))),
           KV("r", Map(<< KV("n", Ref(S("s"))) >>)),
           KV("s", Map(<< KV("inherit", S("u")), KV("k", S("1")) >>)),
           KV("u", Map(<< KV("z", S("1")) >>)) >>)
\* a marker at the top of the document
DocTopMarker == Map(<< KV("inherit", S("b")), KV("b", Map(<< KV("x", S("1")) >>)) >>)
Docs == {XBase, DocLeaf, DocLeafOwn, DocLeafDeep, DocNested, DocScalar, DocBroken,
         DocBrokenLater, DocTwoBroken, DocThroughScalar, DocCycle, DocMappingMarker,
         DocChain, DocTopMarker}
\* X.local.yaml with a marker
LocalMarker == Map(<< KV("more", Ref(S("root"))) >>)

\* Document names: X has a base and a local file, the others have no file.
\* "keys" is also an attribute of the store (dict.keys), "_p" is private.
Names == {"X", "Y", "_p", "keys"}
RealAttrs == {"keys"}
IsPrivate(n) == n \in {"_p"}

InitDisk ==
    [n \in Names |-> IF n = "X" THEN [base |-> XBase, local |-> XLocal]
                     ELSE [base |-> NoFile, local |-> NoFile]]

VARIABLES
    disk,     \* name -> [base, local]: the files <name>.yaml, <name>.local.yaml
    cache,    \* the Config dict: name -> id of its Document, 0 when unbound
    heap,     \* id -> contents of that AttrDict, ids in creation order
    runtime,  \* contents of the ConfigTree conf._runtime
    runtime_id, \* the ConfigTree object conf._runtime refers to (1: the one
              \* made by __init__)
    last,     \* the last statement executed and what it returned or raised
    steps     \* statements the client still executes

vars == <<disk, cache, heap, runtime, runtime_id, last, steps>>

\* The number of statements a behaviour executes.
MaxOps == 3
\* The same for the behaviours that save Documents.
MaxSaveOps == 4

Bound == {n \in Names : cache[n] # 0}

\* load_yaml: the parsed file as an AttrDict, empty when the file is missing
\* or does not parse (ConfigInvalid).
LoadYamlFile(f) == IF IsMapping(f) THEN ShallowUpdate(EmptyMap, f) ELSE EmptyMap

\* A variant of NotFoundWarnings: the failed load is not reported.
NotFoundSilent(conf) == 0

\* Config._load_yaml with the default loader alone: what load_yaml gives for
\* <key>.yaml.
LoadYaml(dsk, key) == LoadYamlFile(dsk[key].base)

\* The for-else of _load_yaml: one ConfigNotFound warning when the last conf
\* loaded is empty.
NotFoundWarnings(conf) == IF conf.val = << >> THEN 1 ELSE 0

\* self.runtime.get(key, {})
RuntimeGet(rt, key) == IF Has(rt.val, key) THEN Lookup(rt.val, key) ELSE Dict(<< >>)

\* Config._populate on the emptied Document of key: the contents it leaves,
\* nf the ConfigNotFound warnings, ip the InvalidInheritPath warnings, st
\* "ok", or "raise"/"diverge" when the call does not return.
PopulateResult(doc, nf, ip, st) == [doc |-> doc, nf |-> nf, ip |-> ip, st |-> st]

\* self._inherit(key) has run
PopulateInherited(nf, r) == PopulateResult(r.doc, nf, r.warned, r.st)

\* A variant of PopulateGraft: the runtime overrides are not grafted on.
PopulateNoGraft(nf, yaml_dict, over) ==
    IF IsRaised(yaml_dict) THEN PopulateResult(EmptyMap, nf, 0, "raise")
    ELSE PopulateInherited(nf, Inherit(ShallowUpdate(EmptyMap, yaml_dict)))

\* yaml_dict.update(self.runtime.get(key, {})); self[key].update(yaml_dict);
\* self._inherit(key).  update raises for overrides that are no mapping.
PopulateGraft(nf, yaml_dict, over) ==
    IF IsRaised(yaml_dict) \/ ~IsMapping(over)
    THEN PopulateResult(EmptyMap, nf, 0, "raise")
    ELSE PopulateInherited(nf, Inherit(ShallowUpdate(EmptyMap, ShallowUpdate(yaml_dict, over))))

\* if local_yaml_dict: yaml_dict.update_dict(local_yaml_dict)
PopulateLocal(yaml_dict, local_yaml_dict, over) ==
    PopulateGraft(NotFoundWarnings(yaml_dict),
                  IF local_yaml_dict.val # << >>
                  THEN UpdateDict(yaml_dict, local_yaml_dict) ELSE yaml_dict,
                  over)

PopulateFrom(key, rt, dsk) ==
    PopulateLocal(LoadYaml(dsk, key), LoadYamlFile(dsk[key].local), RuntimeGet(rt, key))

\* ---- Config: the dict interface ----
\* The commands of one statement run on c (the cache), h (the heap) and rt
\* (the override tree) and give an outcome record; raised says that the
\* statement did not return normally, st how it ended ("ok", "raise" for an
\* exception, "diverge" for a loop that does not end), nf and ip count the
\* ConfigNotFound and InvalidInheritPath warnings.
Outcome(c, h, raised, ret, nf, miss) ==
    [cache |-> c, heap |-> h, raised |-> raised, ret |-> ret, nf |-> nf, miss |-> miss,
     ip |-> 0, st |-> IF raised THEN "raise" ELSE "ok"]

\* super().__setitem__(key, AttrDict()); self._populate(key)
GetMiss(c, h, key, id, r) ==
    [Outcome([c EXCEPT ![key] = id], Append(h, r.doc), r.st # "ok",
             IF r.st = "ok" THEN id ELSE 0, r.nf, TRUE)
        EXCEPT !.ip = r.ip, !.st = r.st]

\* Config.__getitem__: a cached Document, or on a miss a new empty AttrDict
\* bound to key and then populated.
GetItem(c, h, rt, key) ==
    IF c[key] # 0
    THEN Outcome(c, h, FALSE, c[key], 0, FALSE)
    ELSE GetMiss(c, h, key, Len(h) + 1, PopulateFrom(key, rt, disk))

\* The value of an item assignment: a new plain dict, or a Document of this
\* store that the caller holds.
FreshArg(d) == [kind |-> "fresh", v |-> d, id |-> 0]
RefArg(id) == [kind |-> "ref", v |-> EmptyMap, id |-> id]
ArgContents(h, arg) == IF arg.kind = "ref" THEN h[arg.id] ELSE arg.v

\* A variant of SetItemGot: the key is bound to a new AttrDict made from the
\* value, as dict.__setitem__ does.
SetItemRebinds(g, arg) ==
    IF g.raised THEN g
    ELSE [g EXCEPT !.cache = [n \in Names |-> IF g.cache[n] = g.ret
                                              THEN Len(g.heap) + 1 ELSE g.cache[n]],
                   !.heap = Append(g.heap, ShallowUpdate(EmptyMap, ArgContents(g.heap, arg)))]

\* self[key].clear(); self[key].update(value), g what self[key] gave
SetItemGot(g, arg) ==
    IF g.raised THEN g
    ELSE [g EXCEPT !.heap[g.ret] =
             ShallowUpdate(EmptyMap, ArgContents([g.heap EXCEPT ![g.ret] = EmptyMap], arg))]

\* Config.__setitem__
SetItem(c, h, rt, key, arg) == SetItemGot(GetItem(c, h, rt, key), arg)

\* A variant of DelItemPopulated: the Document is populated without being
\* emptied first.
DelItemKeeps(g, r) ==
    [g EXCEPT !.heap[g.ret] = ShallowUpdate(g.heap[g.ret], r.doc),
              !.raised = r.st # "ok", !.nf = g.nf + r.nf, !.ip = r.ip, !.st = r.st]

\* self[key].clear(); self._populate(key), g what self[key] gave and r what
\* _populate leaves in the emptied Document
DelItemPopulated(g, r) ==
    [g EXCEPT !.heap[g.ret] = r.doc, !.raised = r.st # "ok", !.nf = g.nf + r.nf,
              !.ip = r.ip, !.st = r.st]
DelItemGot(g, key, rt) ==
    IF g.raised THEN g ELSE DelItemPopulated(g, PopulateFrom(key, rt, disk))

\* Config.__delitem__
DelItem(c, h, rt, key) == DelItemGot(GetItem(c, h, rt, key), key, rt)

\* The heap with the Documents of the names ns replaced by what res holds.
Reload(c, h, ns, res) ==
    [i \in DOMAIN h |-> IF \E n \in ns : c[n] = i
                        THEN res[CHOOSE n \in ns : c[n] = i].doc ELSE h[i]]

\* for key in self: self[key].clear(); self._populate(key), res what
\* _populate leaves for each bound name.  When some populate raises, the
\* loop stops there: the keys iterated before it (done) are reloaded, the
\* later ones are not touched.  The iteration order of a dict is arbitrary.
ClearLoop(c, h, bound, res, bad) ==
    IF bad = {}
    THEN {[heap |-> Reload(c, h, bound, res), raised |-> FALSE, st |-> "ok"]}
    ELSE {[heap |-> Reload(c, h, done \cup {f}, res), raised |-> TRUE, st |-> res[f].st] :
             f \in bad, done \in SUBSET (bound \ bad)}
ClearBound(c, h, bound, res) ==
    ClearLoop(c, h, bound, res, {n \in bound : res[n].st # "ok"})

\* Config.clear
Clear(c, h, rt) ==
    ClearBound(c, h, {n \in Names : c[n] # 0},
               [n \in {m \in Names : c[m] # 0} |-> PopulateFrom(n, rt, disk)])

\* A variant of GetAttributeFrom: private names go to the loader as well.
GetAttributeLoadsPrivate(c, h, attr, got) ==
    IF attr \in RealAttrs THEN Outcome(c, h, FALSE, -1, 0, FALSE) ELSE got

\* A variant of GetAttributeFrom: only cached Documents are found, a name
\* that is not bound raises AttributeError.
GetAttributeCacheOnly(c, h, attr, got) ==
    IF attr \in RealAttrs THEN Outcome(c, h, FALSE, -1, 0, FALSE)
    ELSE IF c[attr] # 0 THEN got
    ELSE Outcome(c, h, TRUE, 0, 0, FALSE)

\* Config.__getattribute__: a real attribute of the object; else a cached
\* Document; else AttributeError for a private name; else __getitem__ (got).
\* ret is -1 for an attribute that is no Document.
GetAttributeFrom(c, h, attr, got) ==
    IF attr \in RealAttrs THEN Outcome(c, h, FALSE, -1, 0, FALSE)
    ELSE IF c[attr] # 0 THEN got
    ELSE IF IsPrivate(attr) THEN Outcome(c, h, TRUE, 0, 0, FALSE)
    ELSE got
GetAttribute(c, h, rt, attr) == GetAttributeFrom(c, h, attr, GetItem(c, h, rt, attr))

\* ---- ConfigTree ----
\* ConfigTree._clear_conf: conf.clear() when the conf dict is not empty.
ClearConf(c, h, rt) ==
    IF {n \in Names : c[n] # 0} = {}
    THEN {[heap |-> h, raised |-> FALSE, st |-> "ok"]}
    ELSE Clear(c, h, rt)

\* A statement on the tree runs on t = [rt, heap, raised].
AfterClearConf(t) ==
    {[rt |-> t.rt, heap |-> o.heap, raised |-> o.raised] : o \in ClearConf(cache, t.heap, t.rt)}
Raise(t) == [t EXCEPT !.raised = TRUE]

\* A mutation of the mapping node found at path: a ConfigTree node calls
\* _clear_conf after it, a plain dict that was stored in the tree does not.
MutatedNode(t, node, t2) == IF node.tag = "tree" THEN AfterClearConf(t2) ELSE {t2}
Mutated(t, path, node, items) ==
    MutatedNode(t, node, [t EXCEPT !.rt = SetAt(t.rt, path, [node EXCEPT !.val = items])])

RECURSIVE TreeGet(_, _, _)
\* conf.runtime[p1][p2]...: defaultdict.__getitem__ at each step.  A missing
\* key of a ConfigTree is created by __missing__, which stores a new
\* ConfigTree through __setitem__; a missing key of a plain dict is a
\* KeyError, an index into a string a TypeError.  i keys are already followed.
TreeGetFrom(t, path, i, node, k) ==
    IF ~IsMapping(node) THEN {Raise(t)}
    ELSE IF Has(node.val, k) THEN TreeGet(t, path, i + 1)
    ELSE IF node.tag = "tree"
    THEN UNION {TreeGet(t2, path, i + 1) :
                   t2 \in Mutated(t, SubSeq(path, 1, i), node, Put(node.val, k, EmptyTree))}
    ELSE {Raise(t)}
TreeGet(t, path, i) ==
    IF t.raised \/ i = Len(path) THEN {t}
    ELSE TreeGetFrom(t, path, i, Nav(t.rt, SubSeq(path, 1, i)), path[i + 1])

\* ConfigTree.__setitem__ (dict.__setitem__ on a plain dict)
TreeSetItemAt(t, path, node, k, v) ==
    IF ~IsMapping(node) THEN {Raise(t)}
    ELSE Mutated(t, path, node, Put(node.val, k, v))
TreeSetItem(t, path, k, v) == TreeSetItemAt(t, path, Nav(t.rt, path), k, v)

\* ConfigTree.__delitem__
TreeDelItemAt(t, path, node, k) ==
    IF ~IsMapping(node) THEN {Raise(t)}
    ELSE IF ~Has(node.val, k) THEN {Raise(t)}
    ELSE Mutated(t, path, node, Remove(node.val, k))
TreeDelItem(t, path, k) == TreeDelItemAt(t, path, Nav(t.rt, path), k)

RECURSIVE PutAll(_, _)
PutAll(items, new) ==
    IF new = << >> THEN items
    ELSE PutAll(Put(items, Head(new)[1], Head(new)[2]), Tail(new))

\* ConfigTree.update: dict.update stores the values of other as they are.
TreeUpdateAt(t, path, node, other) ==
    IF ~IsMapping(node) THEN {Raise(t)}
    ELSE Mutated(t, path, node, PutAll(node.val, other.val))
TreeUpdate(t, path, other) == TreeUpdateAt(t, path, Nav(t.rt, path), other)

\* ConfigTree.clear
TreeClearAt(t, path, node) ==
    IF ~IsMapping(node) THEN {Raise(t)}
    ELSE Mutated(t, path, node, << >>)
TreeClear(t, path) == TreeClearAt(t, path, Nav(t.rt, path))

\* ---- the statements a client executes ----
\* last: op and its operands (name for the store, path and key for the
\* tree), whether it raised and how it ended (st), the id it returned (ret),
\* the ConfigNotFound and InvalidInheritPath warnings it gave (nf, ip),
\* whether it ran the loader (miss), the contents of
\* the mapping assigned by a set and its id when it is a Document (arg,
\* argid), the contents of the Document before a delete (arg), and the names
\* bound before the statement (bound).
\* trail: the item assignment or save just before it, and the one just
\* before that, the later one first.
Trail(l) ==
    IF l.op \in {"set", "save"}
    THEN << [op |-> l.op, name |-> l.name, raised |-> l.raised, argid |-> l.argid,
             arg |-> l.arg] >>
         \o SubSeq(l.trail, 1, IF Len(l.trail) >= 1 THEN 1 ELSE 0)
    ELSE << >>
Stmt(op, name, path, key, o, arg, argid) ==
    [op |-> op, name |-> name, path |-> path, key |-> key, trail |-> Trail(last),
     raised |-> o.raised, ret |-> o.ret, nf |-> o.nf, miss |-> o.miss,
     ip |-> o.ip, st |-> o.st,
     arg |-> arg, argid |-> argid, bound |-> Bound]
TreeStmt(op, path, key, t) ==
    [op |-> op, name |-> "", path |-> path, key |-> key, trail |-> Trail(last),
     raised |-> t.raised, ret |-> 0, nf |-> 0, miss |-> FALSE,
     ip |-> 0, st |-> IF t.raised THEN "raise" ELSE "ok",
     arg |-> EmptyMap, argid |-> 0, bound |-> Bound]
NoResult == [raised |-> FALSE, ret |-> 0, nf |-> 0, miss |-> FALSE, ip |-> 0, st |-> "ok"]
Contents(n) == IF cache[n] # 0 THEN heap[cache[n]] ELSE EmptyMap

\* Config.__init__ on a config_dir that holds the files dsk; the client
\* goes on to execute ops statements.
InitWith(dsk, ops) ==
    /\ disk = dsk
    /\ cache = [n \in Names |-> 0]
    /\ heap = << >>
    /\ runtime = EmptyTree
    /\ runtime_id = 1
    /\ last = [op |-> "init", name |-> "", path |-> << >>, key |-> "", trail |-> << >>,
               raised |-> FALSE, ret |-> 0, nf |-> 0, miss |-> FALSE,
               ip |-> 0, st |-> "ok",
               arg |-> EmptyMap, argid |-> 0, bound |-> {}]
    /\ steps = ops

Init == InitWith(InitDisk, MaxOps)

Step == steps > 0 /\ steps' = steps - 1

StoreResult(op, name, o, arg, argid) ==
    /\ cache' = o.cache
    /\ heap' = o.heap
    /\ last' = Stmt(op, name, << >>, "", o, arg, argid)
    /\ UNCHANGED <<disk, runtime, runtime_id>>

\* conf[n]
Get(n) ==
    /\ Step
    /\ StoreResult("get", n, GetItem(cache, heap, runtime, n), EmptyMap, 0)

\* conf.n, getattr(conf, n)
Attr(n) ==
    /\ Step
    /\ StoreResult("attr", n, GetAttribute(cache, heap, runtime, n), EmptyMap, 0)

\* The mappings a client assigns: {'foo': 'bar'}, or a Document it holds.
FooBar == Dict(<< <<"foo", S("bar")>> >>)
ItemNames == {"X", "Y"}
SetArgs == {FreshArg(FooBar)} \cup {RefArg(cache[m]) : m \in Bound \cap ItemNames}

\* conf[n] = m
Set(n, arg) ==
    /\ Step
    /\ StoreResult("set", n, SetItem(cache, heap, runtime, n, arg),
                   ShallowUpdate(EmptyMap, ArgContents(heap, arg)), arg.id)

\* del conf[n]
Delete(n) ==
    /\ Step
    /\ StoreResult("delete", n, DelItem(cache, heap, runtime, n), Contents(n), 0)

\* conf.clear()
ClearAll ==
    /\ Step
    /\ \E o \in Clear(cache, heap, runtime) :
          /\ heap' = o.heap
          /\ last' = Stmt("clear", "", << >>, "",
                          [NoResult EXCEPT !.raised = o.raised, !.st = o.st], EmptyMap, 0)
    /\ UNCHANGED <<disk, cache, runtime, runtime_id>>

\* An in-place change of a Document through a reference the client holds:
\* conf[n]['adhoc'] = 'z' on a cached Document.
Mutate(n) ==
    /\ Step
    /\ cache[n] # 0
    /\ heap' = [heap EXCEPT ![cache[n]] = AttrSetItem(heap[cache[n]], "adhoc", S("z"))]
    /\ last' = Stmt("mutate", n, << >>, "", NoResult, EmptyMap, 0)
    /\ UNCHANGED <<disk, cache, runtime, runtime_id>>

\* Statements on conf.runtime.  Each starts from the tree and heap as they
\* are, follows path with __getitem__ and then applies the mutation.
T0 == [rt |-> runtime, heap |-> heap, raised |-> FALSE]
ThenSetItem(ts, path, k, v) ==
    {t \in ts : t.raised} \cup UNION {TreeSetItem(t, path, k, v) : t \in {u \in ts : ~u.raised}}
ThenDelItem(ts, path, k) ==
    {t \in ts : t.raised} \cup UNION {TreeDelItem(t, path, k) : t \in {u \in ts : ~u.raised}}
ThenUpdate(ts, path, other) ==
    {t \in ts : t.raised} \cup UNION {TreeUpdate(t, path, other) : t \in {u \in ts : ~u.raised}}
ThenClear(ts, path) ==
    {t \in ts : t.raised} \cup UNION {TreeClear(t, path) : t \in {u \in ts : ~u.raised}}

TreeResult(op, path, key, ts) ==
    \E t \in ts :
        /\ runtime' = t.rt
        /\ heap' = t.heap
        /\ last' = TreeStmt(op, path, key, t)
        /\ UNCHANGED <<disk, cache, runtime_id>>

\* A variant of SetRuntimeOverrides: the attribute is bound to a new
\* ConfigTree made from the mapping.
SetRuntimeRebinds(id, t, m) == [id |-> id + 1, ts |-> {[t EXCEPT !.rt = Tree(m.val)]}]

\* Config._set_runtime_overrides: self._runtime.update(overrides_dict); id is
\* the object self._runtime refers to afterwards.
SetRuntimeOverrides(id, t, m) == [id |-> id, ts |-> TreeUpdate(t, << >>, m)]
\* Config._del_runtime_overrides: self._runtime.clear()
DelRuntimeOverrides(id, t) == [id |-> id, ts |-> TreeClear(t, << >>)]

RuntimeResult(op, r) ==
    \E t \in r.ts :
        /\ runtime' = t.rt
        /\ heap' = t.heap
        /\ runtime_id' = r.id
        /\ last' = TreeStmt(op, << >>, "", t)
        /\ UNCHANGED <<disk, cache>>

R == S("r")
OverB == Dict(<< <<"b", Dict(<< <<"y", R>> >>)>> >>)
OverXA == Dict(<< <<"X", Dict(<< <<"a", R>> >>)>> >>)
SetTargets ==
    { << <<"X">>, "a", R >>, << <<"X", "b">>, "y", R >>, << <<"Y">>, "a", R >>,
      << << >>, "X", OverB >>, << << >>, "Y", R >> }
DelTargets ==
    { << <<"X">>, "a" >>, << <<"X", "b">>, "y" >>, << <<"Y">>, "a" >>, << << >>, "X" >> }
ReadTargets == { <<"X">>, <<"X", "b">>, <<"Y">> }
UpdateTargets == { << <<"X">>, OverB >> }
ClearTargets == { << >>, <<"X">> }

\* conf.runtime[p1]..[pn][k] = v
TSet(w) ==
    /\ Step
    /\ TreeResult("tset", w[1], w[2], ThenSetItem(TreeGet(T0, w[1], 0), w[1], w[2], w[3]))

\* del conf.runtime[p1]..[pn][k]
TDel(w) ==
    /\ Step
    /\ TreeResult("tdel", w[1], w[2], ThenDelItem(TreeGet(T0, w[1], 0), w[1], w[2]))

\* conf.runtime[p1]..[pn], read
TRead(path) ==
    /\ Step
    /\ TreeResult("tget", path, "", TreeGet(T0, path, 0))

\* conf.runtime[p1]..[pn].update(other)
TUpdate(w) ==
    /\ Step
    /\ TreeResult("tupdate", w[1], "", ThenUpdate(TreeGet(T0, w[1], 0), w[1], w[2]))

\* conf.runtime[p1]..[pn].clear()
TClear(path) ==
    /\ Step
    /\ TreeResult("tclear", path, "", ThenClear(TreeGet(T0, path, 0), path))

\* conf.runtime = M  (Config._set_runtime_overrides)
RuntimeAssign(m) ==
    /\ Step
    /\ RuntimeResult("assign", SetRuntimeOverrides(runtime_id, T0, m))

\* del conf.runtime  (Config._del_runtime_overrides)
RuntimeDel ==
    /\ Step
    /\ RuntimeResult("delruntime", DelRuntimeOverrides(runtime_id, T0))

Next ==
    \/ \E n \in Names : Get(n)
    \/ \E n \in Names : Attr(n)
    \/ \E n \in ItemNames : \E arg \in SetArgs : Set(n, arg)
    \/ \E n \in ItemNames : Delete(n)
    \/ ClearAll
    \/ \E n \in ItemNames : Mutate(n)
    \/ \E w \in SetTargets : TSet(w)
    \/ \E w \in DelTargets : TDel(w)
    \/ \E p \in ReadTargets : TRead(p)
    \/ \E w \in UpdateTargets : TUpdate(w)
    \/ \E p \in ClearTargets : TClear(p)
    \/ RuntimeAssign(OverXA)
    \/ RuntimeDel

Spec == Init /\ [][Next]_vars

\* ---- Config.save ----
RECURSIVE Dump(_)
\* AttrDict.dump: the YAML text of the Document, kept as the plain mappings
\* yaml.load reads back from it.
Dump(v) ==
    IF IsMapping(v)
    THEN Dict([i \in 1..Len(v.val) |-> <<v.val[i][1], Dump(v.val[i][2])>>])
    ELSE v

\* open(<key>.yaml, 'w') runs before self[key] is evaluated: the file is
\* empty while a Document that is not bound yet is populated, and an empty
\* file does not load (ConfigInvalid).
Truncated(dsk, key) == [dsk EXCEPT ![key].base = Invalid]
SaveItem(c, h, rt, dsk, key) ==
    IF c[key] # 0
    THEN Outcome(c, h, FALSE, c[key], 0, FALSE)
    ELSE GetMiss(c, h, key, Len(h) + 1, PopulateFrom(key, rt, Truncated(dsk, key)))
\* self[key].dump(conf_file), g what self[key] gave
SaveDisk(dsk, key, g) ==
    [dsk EXCEPT ![key].base = IF g.raised THEN Invalid ELSE Dump(g.heap[g.ret])]

\* conf.save(n)
Save(n) ==
    /\ Step
    /\ cache' = SaveItem(cache, heap, runtime, disk, n).cache
    /\ heap' = SaveItem(cache, heap, runtime, disk, n).heap
    /\ disk' = SaveDisk(disk, n, SaveItem(cache, heap, runtime, disk, n))
    /\ last' = Stmt("save", n, << >>, "", SaveItem(cache, heap, runtime, disk, n), EmptyMap, 0)
    /\ UNCHANGED <<runtime, runtime_id>>

\* ---- a store over each of the documents ----
DocDisks ==
    {[InitDisk EXCEPT !["X"] = [base |-> d, local |-> NoFile]] : d \in Docs}
    \cup {InitDisk, [InitDisk EXCEPT !["X"] = [base |-> DocLeaf, local |-> LocalMarker]]}

\* conf.runtime['X']['late']['inherit'] = 'root': a marker in the runtime layer
LateMarker == << <<"X", "late">>, "inherit", S("root") >>

InheritSpecInit == \E dsk \in DocDisks : InitWith(dsk, MaxOps)
InheritSpecNext ==
    \/ Get("X")
    \/ Delete("X")
    \/ ClearAll
    \/ TSet(LateMarker)
InheritSpec == InheritSpecInit /\ [][InheritSpecNext]_vars

\* The stores whose Document X is populated in finitely many scans.
SaveDisks == {dsk \in DocDisks : dsk["X"].base # DocTwoBroken}
SaveInit == \E dsk \in SaveDisks : InitWith(dsk, MaxSaveOps)
SaveNext ==
    \/ Get("X")
    \/ \E n \in ItemNames : \E arg \in SetArgs : Set(n, arg)
    \/ \E n \in ItemNames : Save(n)
    \/ \E n \in ItemNames : Delete(n)
SaveSpec == SaveInit /\ [][SaveNext]_vars

\* ---- properties ----
RECURSIVE SameContents(_, _)
\* Two values hold the same keys and values, whatever the order of the keys.
SameContents(v, w) ==
    IF IsMapping(v) /\ IsMapping(w)
    THEN /\ Keys(v.val) = Keys(w.val)
         /\ \A k \in Keys(v.val) : SameContents(Lookup(v.val, k), Lookup(w.val, k))
    ELSE ~IsMapping(v) /\ ~IsMapping(w) /\ v = w

\* d[k] is v
HasEntry(d, k, v) == Has(d.val, k) /\ SameContents(Lookup(d.val, k), v)
\* d and e agree on key k: both lack it, or both hold the same value
SameEntry(d, e, k) ==
    /\ Has(d.val, k) <=> Has(e.val, k)
    /\ Has(d.val, k) => SameContents(Lookup(d.val, k), Lookup(e.val, k))

\* What conf[n] gives on a new store with the same files and overrides.
FreshGet(n) == GetItem([m \in Names |-> 0], << >>, runtime, n)
\* What the populate pipeline gives for n with an empty override tree.
FileOnly(n) == PopulateFrom(n, EmptyTree, disk)

Completed(ops) == last.op \in ops /\ ~last.raised
TreeMutations == {"tset", "tdel", "tupdate", "tclear", "assign", "delruntime"}

\* C1 (identity stability): a name that is bound stays bound to the same
\* object through every statement (get, set, delete, clear, every statement
\* on the override tree), and conf[K] on a bound K returns that object.
C1_GetReturnsBound ==
    (last.op = "get" /\ last.name \in last.bound)
        => (~last.raised /\ ~last.miss /\ last.ret = cache[last.name])
C1_IdentityStable ==
    /\ [][\A n \in Names : cache[n] # 0 =>
             (cache'[n] = cache[n] /\ cache[n] \in DOMAIN heap')]_vars
    /\ []C1_GetReturnsBound
C1_Witness ==
    /\ Completed({"set", "delete", "clear"} \cup TreeMutations)
    /\ cache["X"] = 1 /\ "X" \in last.bound
    /\ Contents("X") # FileOnly("X").doc

\* C2 (layering order), as claimed: the populated Document is the deep merge
\* base < local < runtime, nested mappings merged at every layer, the runtime
\* layer included.
DeepLayers(n) ==
    Inherit(ShallowUpdate(EmptyMap,
        UpdateDict(UpdateDict(LoadYaml(disk, n), LoadYamlFile(disk[n].local)),
                   ToAttr(RuntimeGet(runtime, n)))))
C2_DeepLayering ==
    (/\ Completed({"get", "delete"})
     /\ last.op = "get" => last.miss
     /\ IsMapping(RuntimeGet(runtime, last.name)))
        => SameContents(Contents(last.name), DeepLayers(last.name).doc)

\* C3 (every mutation of the tree clears the store), as claimed: after any
\* completed mutation of a node reachable from conf.runtime, every cached
\* Document holds what the populate pipeline gives for the new overrides.
C3_EveryMutationClears ==
    Completed(TreeMutations)
        => \A n \in Bound : SameContents(Contents(n), PopulateFrom(n, runtime, disk).doc)

\* C4 (a runtime override precedes the cache and persists): while
\* runtime[n][k] = v is staged in ConfigTree nodes, the Document of n holds
\* k = v after the staging statement, after conf[n] on a miss, after
\* del conf[n] and after conf.clear(); and conf[n] on a hit returns the
\* cached Document without changing any contents.
Staged(n, k) ==
    /\ Has(runtime.val, n)
    /\ Lookup(runtime.val, n).tag = "tree"
    /\ Has(Lookup(runtime.val, n).val, k)
    /\ Lookup(Lookup(runtime.val, n).val, k).tag = "str"
StagedValue(n, k) == Lookup(Lookup(runtime.val, n).val, k)
Populating(n) ==
    /\ ~last.raised
    /\ cache[n] # 0
    /\ \/ last.op = "tset" /\ last.path = <<n>>
       \/ last.op \in {"get", "attr"} /\ last.name = n /\ last.miss
       \/ last.op = "delete" /\ last.name = n
       \/ last.op = "clear"
C4_OverrideInDocument ==
    \A n \in ItemNames :
        (Staged(n, "a") /\ Populating(n)) => HasEntry(Contents(n), "a", StagedValue(n, "a"))
C4_OverridePersists ==
    /\ []C4_OverrideInDocument
    /\ [][(last'.op \in {"get", "attr"} /\ ~last'.miss) => heap' = heap]_vars
C4_Witness ==
    /\ Completed({"clear"})
    /\ Staged("Y", "a")
    /\ HasEntry(Contents("Y"), "a", R)
    /\ cache["Y"] # 0

\* C5 (runtime clear/delete resets to the file-derived value), as claimed:
\* after runtime.clear() and del conf.runtime every cached Document, and
\* after the deletion of one override entry the key of the Document it was
\* staged under, hold what the base and local files alone give.
C5_ResetToFiles ==
    /\ (Completed({"tclear", "delruntime"}) /\ last.path = << >>)
          => \A n \in Bound : SameContents(Contents(n), FileOnly(n).doc)
    /\ (Completed({"tdel"}) /\ last.path = << >> /\ last.key \in Bound)
          => SameContents(Contents(last.key), FileOnly(last.key).doc)
    /\ (Completed({"tdel"}) /\ last.path # << >> /\ last.path[1] \in Bound)
          => SameEntry(Contents(last.path[1]), FileOnly(last.path[1]).doc,
                       IF Len(last.path) >= 2 THEN last.path[2] ELSE last.key)

\* C6 (delete and clear reload from the sources): after del conf[K], and for
\* every bound K after conf.clear(), the Document of K holds exactly what
\* conf[K] gives on a new store with the same files and overrides.
C6_ReloadFromSources ==
    /\ Completed({"delete"}) => Contents(last.name) = FreshGet(last.name).heap[1]
    /\ Completed({"clear"}) => \A n \in Bound : Contents(n) = FreshGet(n).heap[1]
C6_Witness ==
    /\ Completed({"delete"})
    /\ Has(last.arg.val, "adhoc")
    /\ ~Has(Contents(last.name).val, "adhoc")

\* C7 (set does not rebind), as claimed: after conf[name] = m the Document
\* of name is the object it was and holds exactly what m held when the
\* statement started, for a new mapping and for a Document of the store.
C7_SetCopiesArgument ==
    Completed({"set"})
        => /\ last.ret = cache[last.name]
           /\ SameContents(Contents(last.name), last.arg)
\* C7 as amended: the same for every m but the Document bound to name
\* itself; with m that Document, the Document is left empty.
C7_SetCopiesOtherMapping ==
    Completed({"set"})
        => /\ last.ret = cache[last.name]
           /\ last.ret \in DOMAIN heap
           /\ IF last.argid = last.ret
              THEN Contents(last.name) = EmptyMap
              ELSE Contents(last.name) = last.arg
C7_Witness ==
    /\ Completed({"set"})
    /\ last.name = "X" /\ "X" \in last.bound /\ last.argid = 0
    /\ Keys(Contents("X").val) = {"foo"}

\* C8 (private-prefix rejection), as claimed: conf.<name> for a private name
\* that is no real attribute always raises AttributeError, returns no
\* Document, runs no loader and binds nothing.
C8_PrivateAlwaysRejected ==
    (last.op = "attr" /\ IsPrivate(last.name) /\ last.name \notin RealAttrs)
        => /\ last.raised /\ last.ret = 0
           /\ ~last.miss /\ Bound = last.bound
\* C8 as amended: it raises AttributeError unless the name is already bound
\* in the store, and then returns the cached Document; either way it runs no
\* loader and binds nothing.
C8_PrivateNeverLoaded ==
    (last.op = "attr" /\ IsPrivate(last.name) /\ last.name \notin RealAttrs)
        => /\ ~last.miss /\ Bound = last.bound
           /\ last.name \notin last.bound => (last.raised /\ last.ret = 0)
           /\ last.name \in last.bound => (~last.raised /\ last.ret = cache[last.name])
C8_Witness ==
    /\ last.op = "attr" /\ last.name = "_p" /\ last.raised
    /\ cache["_p"] = 0 /\ Bound # {}

\* C9 (attribute access is get), as claimed: for every name that is not
\* private, conf.<name> returns the Document that conf[name] returns.
C9_AttrIsGet ==
    (last.op = "attr" /\ ~IsPrivate(last.name))
        => /\ last.raised <=> FreshGet(last.name).raised
           /\ ~last.raised => (last.ret = cache[last.name] /\ last.ret \in DOMAIN heap)
\* C9 as amended: for every name that is not private and is no real
\* attribute of the store object: the cached Document on a hit, on a miss a
\* Document populated as conf[name] populates it, raising when that raises.
C9_AttrIsGetUnlessRealAttribute ==
    (last.op = "attr" /\ ~IsPrivate(last.name) /\ last.name \notin RealAttrs)
        => /\ last.miss <=> last.name \notin last.bound
           /\ last.raised <=> (last.miss /\ FreshGet(last.name).raised)
           /\ ~last.raised => (last.ret = cache[last.name] /\ last.ret \in DOMAIN heap)
           /\ last.miss => Contents(last.name) = FreshGet(last.name).heap[1]
C9_Witness ==
    /\ last.op = "attr" /\ last.name = "X" /\ last.miss /\ ~last.raised
    /\ Contents("X") # EmptyMap

\* C10 (missing document advisory): conf[name] for a name with no base file,
\* no local file and nothing staged in the override tree does not raise; it
\* binds name to an empty Document, returns it, and warns ConfigNotFound
\* exactly once.
NoSource(n) ==
    /\ ~IsMapping(disk[n].base) /\ ~IsMapping(disk[n].local)
    /\ ~Has(runtime.val, n)
C10_MissingDocument ==
    (last.op = "get" /\ last.miss /\ NoSource(last.name))
        => /\ ~last.raised
           /\ last.ret # 0 /\ last.ret = cache[last.name]
           /\ Contents(last.name) = EmptyMap
           /\ last.nf = 1
C10_Witness ==
    /\ last.op = "get" /\ last.miss /\ last.name = "Y" /\ NoSource("Y")
    /\ last.nf = 1 /\ Contents("Y") = EmptyMap /\ cache["Y"] # 0

\* ---- properties of inherit resolution ----
\* The Document of n as it is when _inherit starts: base file, local file
\* and runtime overrides layered as _populate layers them.
LayeredFiles(n) ==
    IF LoadYamlFile(disk[n].local).val # << >>
    THEN UpdateDict(LoadYaml(disk, n), LoadYamlFile(disk[n].local))
    ELSE LoadYaml(disk, n)
Layered(n) == ShallowUpdate(EmptyMap, ShallowUpdate(LayeredFiles(n), RuntimeGet(runtime, n)))

\* The last statement ran the populate pipeline for n and returned.
Populated(n) ==
    /\ ~last.raised
    /\ cache[n] # 0
    /\ \/ last.op = "get" /\ last.name = n /\ last.miss
       \/ last.op = "delete" /\ last.name = n
       \/ last.op \in {"clear", "tset"}

IsPrefix(p, q) == Len(p) <= Len(q) /\ SubSeq(q, 1, Len(p)) = p
\* the paths of the nodes that carry a marker, 'inherit' with a string value
MarkerSet(d) == {Markers(d)[i] : i \in 1..Len(Markers(d))}
\* where the path of the marker of the node at p leads
Target(d, p) == WalkBase(d, << >>, Lookup(Nav(d, p).val, "inherit").val)
\* the node at p and the place q are not inside one another, and no other
\* marker-bearing node is above, below or at either of them
Isolated(d, p, q) ==
    /\ ~IsPrefix(p, q) /\ ~IsPrefix(q, p)
    /\ \A m \in MarkerSet(d) \ {p} :
          ~IsPrefix(m, p) /\ ~IsPrefix(p, m) /\ ~IsPrefix(m, q) /\ ~IsPrefix(q, m)
\* the marker of the node at p resolves to a mapping
InheritsMapping(d, p) ==
    /\ Target(d, p).st = "found"
    /\ IsAttrDict(Nav(d, Target(d, p).at))
    /\ Isolated(d, p, Target(d, p).at)
\* new is node rebased on base as claimed: no marker, the keys of node with
\* the values of node, the other keys of base with the values of base
RebasedAsClaimed(node, base, new) ==
    /\ IsMapping(new)
    /\ ~Has(new.val, "inherit")
    /\ \A k \in (Keys(node.val) \cup Keys(base.val)) \ {"inherit"} :
          /\ Has(new.val, k)
          /\ SameContents(Lookup(new.val, k),
                          IF Has(node.val, k) THEN Lookup(node.val, k) ELSE Lookup(base.val, k))
HoldsNoMapping(m) == \A k \in Keys(m.val) : ~IsMapping(Lookup(m.val, k))

\* C11 (inheritance onto a mapping is a rebase), as claimed: after the
\* populate pipeline has run, a node whose marker resolves to a mapping R has
\* no 'inherit' key, has every key of R with the value of R unless it
\* defined the key itself, and has kept each of its own keys with its own
\* value.
C11_RebaseOntoMapping ==
    Populated("X") =>
        \A p \in MarkerSet(Layered("X")) :
            InheritsMapping(Layered("X"), p) =>
                RebasedAsClaimed(Nav(Layered("X"), p),
                                 Nav(Layered("X"), Target(Layered("X"), p).at),
                                 Nav(Contents("X"), p))
\* What holds of C11: the same for a node and a mapping R that hold no
\* mapping themselves.
C11_RebaseOfLeaves ==
    Populated("X") =>
        \A p \in MarkerSet(Layered("X")) :
            (/\ InheritsMapping(Layered("X"), p)
             /\ HoldsNoMapping(Nav(Layered("X"), p))
             /\ HoldsNoMapping(Nav(Layered("X"), Target(Layered("X"), p).at)))
                => RebasedAsClaimed(Nav(Layered("X"), p),
                                    Nav(Layered("X"), Target(Layered("X"), p).at),
                                    Nav(Contents("X"), p))
C11_LeavesWitness ==
    /\ Populated("X")
    /\ disk["X"].base = DocLeafOwn
    /\ Nav(Contents("X"), <<"leaf">>) =
          Map(<< KV("k1", S("own")), KV("k2", S("v2")), KV("z", S("own")) >>)

\* C12 (nested inheritance): X.yaml being {root: {k1: v1, k2: v2}, mid:
\* {inherit: root, extra: {inherit: mid}}} with nothing layered over it, the
\* populated Document has mid == {k1: v1, k2: v2, extra: {k1: v1, k2: v2}}:
\* mid has exactly the keys k1, k2 and extra, and extra equals root, with no
\* marker and no extra of its own.
NestedResolved ==
    Map(<< KV("k1", S("v1")), KV("k2", S("v2")),
           KV("extra", Map(<< KV("k1", S("v1")), KV("k2", S("v2")) >>)) >>)
InheritsScalar(d, p) ==
    /\ Target(d, p).st = "found"
    /\ ~IsMapping(Nav(d, Target(d, p).at))
    /\ Isolated(d, p, Target(d, p).at)

\* C13 (inheritance onto a non-mapping): after the populate pipeline has
\* run, a node whose marker resolves to a string is replaced as a whole by
\* that string: the entry at the node's key holds the string, and neither
\* the marker nor any sibling key of the node is left.
C13_ReplacedByScalar ==
    Populated("X") =>
        \A p \in MarkerSet(Layered("X")) :
            InheritsScalar(Layered("X"), p) =>
                /\ ~IsMapping(Nav(Contents("X"), p))
                /\ Nav(Contents("X"), p) = Nav(Layered("X"), Target(Layered("X"), p).at)
C13_Witness ==
    /\ Populated("X")
    /\ SameContents(Layered("X"), DocScalar)
    /\ InheritsScalar(Layered("X"), <<"ref">>)
    /\ Keys(Nav(Layered("X"), <<"ref">>).val) = {"inherit", "sib"}
    /\ Nav(Contents("X"), <<"ref">>) = S("hi")

\* ---- properties of save ----
\* The last three statements were conf[n] = d for a Document d of the store,
\* conf.save(n) and del conf[n], and each of them returned.
SavedAndReloaded(n) ==
    /\ last.op = "delete" /\ last.name = n /\ ~last.raised
    /\ Len(last.trail) = 2
    /\ last.trail[1].op = "save" /\ last.trail[1].name = n /\ ~last.trail[1].raised
    /\ last.trail[2].op = "set" /\ last.trail[2].name = n /\ ~last.trail[2].raised
    /\ last.trail[2].argid # 0
\* what get(X) held when it was assigned
Assigned == last.trail[2].arg

\* C14 (save round trip) for every name, also one with a local file: after
\* set(n, get(X)), save(n) and delete(n) the Document of n has the key set
\* get(X) had.
C14_SaveRoundTrip ==
    \A n \in ItemNames :
        SavedAndReloaded(n) => Keys(Contents(n).val) = Keys(Assigned.val)
\* n.yaml is the only source of n: no local file, no overrides staged
OnlyBaseFile(n) ==
    /\ LoadYamlFile(disk[n].local).val = << >>
    /\ RuntimeGet(runtime, n).val = << >>
\* What holds of C14: the same when get(X) is not the Document of n itself
\* and nothing is layered over n.yaml.
C14_SaveRoundTripOfOther ==
    \A n \in ItemNames :
        (SavedAndReloaded(n) /\ last.trail[2].argid # cache[n] /\ OnlyBaseFile(n))
            => Keys(Contents(n).val) = Keys(Assigned.val)
\* C14 (save round trip) for a name that has no source but the saved file:
\* after set(n, get(X)), save(n) and delete(n), for any Document get(X) of
\* the store, the Document of n has the key set get(X) had.
C14_SaveRoundTripOfAny ==
    \A n \in ItemNames :
        (SavedAndReloaded(n) /\ OnlyBaseFile(n))
            => Keys(Contents(n).val) = Keys(Assigned.val)
C14_OtherWitness ==
    /\ SavedAndReloaded("Y")
    /\ last.trail[2].argid = cache["X"]
    /\ cache["X"] # cache["Y"]
    /\ disk["Y"].base = Dump(Contents("X"))
    /\ Keys(Contents("Y").val) = {"a", "b", "c"}

\* ---- properties of the runtime attribute ----
\* C15 (assigning to runtime keeps the object): no statement, conf.runtime =
\* M and del conf.runtime included, changes the object conf.runtime refers
\* to; and after conf.runtime = {'X': {'a': 'r'}} has returned, the Document
\* of X, when X is bound, holds a = 'r'.
C15_AssignTakesEffect ==
    (Completed({"assign"}) /\ cache["X"] # 0) => HasEntry(Contents("X"), "a", R)
C15_RuntimeIdentity ==
    /\ [][runtime_id' = runtime_id]_vars
    /\ []C15_AssignTakesEffect
C15_Witness ==
    /\ Completed({"assign"})
    /\ runtime_id = 1
    /\ cache["X"] # 0
    /\ HasEntry(Contents("X"), "a", R)
    /\ HasEntry(runtime, "X", Map(<< KV("a", R) >>))

\* ---- properties of the scan-and-resolve loop ----
\* C16 (resolution terminates): the loop of _needs_inherit and _inherit
\* reaches a scan that finds no marker; no statement is left scanning a
\* document that still holds markers after MaxPasses scans.
C16_ResolutionTerminates == last.st # "diverge"
\* What the loop does where it does not end: after MaxPasses scans the
\* document holds at least as many markers as it had when the loop started.
C16_MarkersRemain ==
    (last.st = "diverge" /\ last.op \in {"get", "delete"} /\ last.name = "X")
        => /\ Len(Markers(Contents("X"))) >= Len(Markers(Layered("X")))
           /\ Len(Markers(Contents("X"))) >= 2
           /\ last.ip >= MaxPasses
C16_DivergeWitness ==
    /\ last.st = "diverge"
    /\ last.op = "get"
    /\ disk["X"].base = DocTwoBroken
    /\ runtime = EmptyTree

\* the marker of the node at p has a path with an element that is missing
BrokenPath(d, p) == Target(d, p).st = "keyerror"
\* C17 (broken inherit path): after the populate pipeline has run on a
\* document with a marker whose path has a missing element, the
\* InvalidInheritPath warning was given and the node of that marker is as
\* it was: it holds its marker and its other keys, and nothing else.
C17_BrokenPathLeftAlone ==
    Populated("X") =>
        \A p \in MarkerSet(Layered("X")) :
            BrokenPath(Layered("X"), p) =>
                /\ last.ip >= 1
                /\ SameContents(Nav(Contents("X"), p), Nav(Layered("X"), p))
\* What holds of C17: the warning is given, and the node has lost its
\* marker and holds the keys of the mapping the walk stopped in.
C17_BrokenPathRebased ==
    Populated("X") =>
        \A p \in MarkerSet(Layered("X")) :
            (BrokenPath(Layered("X"), p) /\ Isolated(Layered("X"), p, p)) =>
                /\ last.ip >= 1
                /\ IsMapping(Nav(Contents("X"), p))
                /\ ~Has(Nav(Contents("X"), p).val, "inherit")
                /\ Keys(Nav(Layered("X"), Target(Layered("X"), p).at).val) \ {Last(p)}
                      \subseteq Keys(Nav(Contents("X"), p).val)
C17_RebasedWitness ==
    /\ Populated("X")
    /\ SameContents(Layered("X"), DocBrokenLater)
    /\ last.ip = 1
    /\ SameContents(Nav(Contents("X"), <<"broken">>),
                    Map(<< KV("x", S("1")), KV("own", S("o")) >>))

\* C18 (a path that does not resolve never aborts the pipeline): get(X),
\* delete(X) and clear() return normally on every document, whatever its
\* inherit paths are; no exception leaves the populate pipeline.
C18_PopulateNeverRaises ==
    last.op \in {"get", "delete", "clear"} => last.st # "raise"
\* What holds of C18: a path with a missing key, at the first or a later
\* position, does not raise; the statement returns with the warning given.
C18_MissingKeyWarns ==
    (/\ last.op = "delete" \/ (last.op = "get" /\ last.miss)
     /\ last.name = "X"
     /\ runtime = EmptyTree
     /\ disk["X"].base \in {DocBroken, DocBrokenLater})
        => ~last.raised /\ last.ip = 1 /\ cache["X"] # 0
C18_MissingKeyWitness ==
    /\ last.op = "delete" /\ last.name = "X" /\ ~last.raised
    /\ last.ip = 1
    /\ disk["X"].base = DocBroken
    /\ HasEntry(Contents("X"), "good", S("v"))
\* the statement that raised was run on a path that continues through a
\* string (TypeError), or on a marker at the top of the document (IndexError)
C18_RaisedWitness ==
    /\ last.op = "get" /\ last.name = "X" /\ last.st = "raise"
    /\ disk["X"].base = DocThroughScalar

RECURSIVE HasKeyAnywhere(_, _)
\* some mapping node of v, v included, has the key k
HasKeyAnywhere(v, k) ==
    /\ IsMapping(v)
    /\ \/ Has(v.val, k)
       \/ \E i \in 1..Len(v.val) : HasKeyAnywhere(v.val[i][2], k)

\* C19 (no marker survives population): after the populate pipeline has
\* run for X, no mapping node anywhere in the Document of X has the key
\* 'inherit'.
C19_NoMarkerSurvives ==
    Populated("X") => ~HasKeyAnywhere(Contents("X"), "inherit")
\* What holds of C19: no 'inherit' key that holds a string survives, also
\* for markers from the local file or the runtime overrides, markers copied
\* from an inherited subtree and markers below a marker-bearing node.
C19_NoStringMarker ==
    Populated("X") => Markers(Contents("X")) = << >>
C19_StringWitness ==
    /\ Populated("X")
    /\ last.op = "tset"
    /\ disk["X"].local = LocalMarker
    /\ Len(Markers(Layered("X"))) = 3
    /\ Markers(Contents("X")) = << >>
    /\ HasEntry(Contents("X"), "late", RootKs)
C19_SurvivorWitness ==
    /\ Populated("X")
    /\ disk["X"].base = DocMappingMarker
    /\ HasEntry(Nav(Contents("X"), <<"a">>), "inherit", Map(<< KV("x", S("1")) >>))

\* The Document of n as the files and the overrides of m alone give it.
UnderOverrides(n, m) == PopulateFrom(n, Tree(m.val), disk).doc
\* C20 (assigning to runtime replaces the overrides): after conf.runtime =
\* M has returned, every bound Document is what its files and the overrides
\* of M give; an override staged before that M does not mention is in no
\* Document.
C20_AssignReplaces ==
    Completed({"assign"}) =>
        \A n \in Bound \cap ItemNames : SameContents(Contents(n), UnderOverrides(n, OverXA))
\* What holds of C20: after the assignment the overrides of M are in force
\* together with the ones staged before, as ConfigTree.update merges them.
C20_AssignMerges ==
    Completed({"assign"}) =>
        /\ HasEntry(runtime, "X", Map(<< KV("a", R) >>))
        /\ \A n \in Bound \cap ItemNames :
              SameContents(Contents(n), PopulateFrom(n, runtime, disk).doc)
C20_MergedWitness ==
    /\ Completed({"assign"})
    /\ cache["Y"] # 0
    /\ Has(runtime.val, "Y")
    /\ HasEntry(Contents("Y"), "a", R)

====
